---------------------------- MODULE Spec2Model ----------------------------
(***************************************************************************)
(* advanzia2csv: extraction of card-statement transactions from page text  *)
(* (src/lib.rs) and the batch conversion that drives it (src/main.rs).     *)
(*                                                                         *)
(* A text is a sequence of characters, each character a one-element        *)
(* string.  Offsets are 0-based and slices half-open, as in the source:    *)
(* Slice(t, a, b) is &t[a..b].                                             *)
(***************************************************************************)
EXTENDS Integers, Sequences, FiniteSets, TLC

\* ------------------------------------------------------------------------
\* Characters
\* ------------------------------------------------------------------------

AsciiDigits == {"0", "1", "2", "3", "4", "5", "6", "7", "8", "9"}

\* A decimal digit outside ASCII (ARABIC-INDIC DIGIT THREE), held as one
\* character.  The regex class \d is Unicode-aware and matches it; the
\* f64 parser of the standard library does not accept it.
ArabicThree == "U+0663"

\* \d: the decimal digits of Unicode (general category Nd); of those
\* outside ASCII, the one that occurs
IsDigit(c) == c \in AsciiDigits \cup {ArabicThree}

\* str::trim strips the characters with the Unicode property White_Space;
\* those without an escape of their own are held by their code points
IsWhite(c) ==
  c \in {"\t", "\n", "U+000B", "\f", "\r", " ", "U+0085", "U+00A0", "U+1680",
         "U+2000", "U+2001", "U+2002", "U+2003", "U+2004", "U+2005", "U+2006",
         "U+2007", "U+2008", "U+2009", "U+200A", "U+2028", "U+2029", "U+202F",
         "U+205F", "U+3000"}

DigitVal(c) ==
  CASE c = "0" -> 0 [] c = "1" -> 1 [] c = "2" -> 2 [] c = "3" -> 3
    [] c = "4" -> 4 [] c = "5" -> 5 [] c = "6" -> 6 [] c = "7" -> 7
    [] c = "8" -> 8 [] c = "9" -> 9

\* ------------------------------------------------------------------------
\* String primitives of the standard library, as the source uses them
\* ------------------------------------------------------------------------

\* &t[a..b]
Slice(t, a, b) == SubSeq(t, a + 1, b)

\* t[i] for a 0-based offset i
CharAt(t, i) == t[i + 1]

\* str::find(needle): offset of the first occurrence, or -1 for None
Find(t, needle) ==
  LET hits == {i \in 0..(Len(t) - Len(needle)) :
                 Slice(t, i, i + Len(needle)) = needle}
  IN IF hits = {} THEN -1 ELSE CHOOSE i \in hits : \A j \in hits : i <= j

\* str::trim
Trim(t) ==
  LET keep == {i \in 1..Len(t) : ~IsWhite(t[i])}
  IN IF keep = {} THEN <<>>
     ELSE SubSeq(t, CHOOSE i \in keep : \A j \in keep : i <= j,
                    CHOOSE i \in keep : \A j \in keep : i >= j)

\* str::split_once("\n"); None is unwrap_or_default'ed to ("", "")
split_once(t) ==
  LET i == Find(t, <<"\n">>)
  IN IF i = -1 THEN <<<<>>, <<>>>>
     ELSE <<Slice(t, 0, i), Slice(t, i + 1, Len(t))>>

\* str::replace(from, to) for a one-character from: every occurrence of
\* from gives way to to, character for character when to is one character
RECURSIVE Replace(_, _, _)
Replace(t, from, to) ==
  IF Len(to) = 1 THEN [i \in 1..Len(t) |-> IF t[i] = from THEN to[1] ELSE t[i]]
  ELSE IF t = <<>> THEN <<>>
  ELSE (IF Head(t) = from THEN to ELSE <<Head(t)>>) \o Replace(Tail(t), from, to)

\* ------------------------------------------------------------------------
\* RE_DATE = \d{2}\.\d{2}\.\d{4}
\* ------------------------------------------------------------------------

DateLen == 10

\* the pattern matches at offset i
DateAt(t, i) ==
  /\ i >= 0
  /\ i + DateLen <= Len(t)
  /\ \A k \in {0, 1, 3, 4, 6, 7, 8, 9} : IsDigit(CharAt(t, i + k))
  /\ \A k \in {2, 5} : CharAt(t, i + k) = "."

\* RE_DATE.find(t) from offset `from`: leftmost match start, -1 for None
RE_DATE_find(t, from) ==
  LET hits == {i \in from..(Len(t) - DateLen) : DateAt(t, i)}
  IN IF hits = {} THEN -1 ELSE CHOOSE i \in hits : \A j \in hits : i <= j

\* RE_DATE.find_iter(t): starts of the successive non-overlapping matches
RECURSIVE RE_DATE_find_iter(_, _)
RE_DATE_find_iter(t, from) ==
  LET i == RE_DATE_find(t, from)
  IN IF i = -1 THEN <<>> ELSE <<i>> \o RE_DATE_find_iter(t, i + DateLen)

\* ------------------------------------------------------------------------
\* RE_NUMBER = \d+,\d+
\* ------------------------------------------------------------------------

\* end (exclusive) of the run of digits that starts at offset i
DigitRunEnd(t, i) ==
  LET stops == {j \in i..Len(t) : j = Len(t) \/ ~IsDigit(CharAt(t, j))}
  IN CHOOSE j \in stops : \A k \in stops : j <= k

\* the pattern matches at offset i: the greedy \d+ takes the whole run of
\* digits, a comma and at least one digit follow
NumberAt(t, i) ==
  /\ i >= 0
  /\ i < Len(t)
  /\ IsDigit(CharAt(t, i))
  /\ LET j == DigitRunEnd(t, i)
     IN /\ j + 1 < Len(t)
        /\ CharAt(t, j) = ","
        /\ IsDigit(CharAt(t, j + 1))

\* end (exclusive) of the match that starts at offset i
NumberEnd(t, i) == DigitRunEnd(t, DigitRunEnd(t, i) + 1)

\* RE_NUMBER.find(t) from offset `from`: leftmost match start, -1 for None
RE_NUMBER_find(t, from) ==
  LET hits == {i \in from..(Len(t) - 1) : NumberAt(t, i)}
  IN IF hits = {} THEN -1 ELSE CHOOSE i \in hits : \A j \in hits : i <= j

\* RE_NUMBER.find_iter(t): starts of the successive non-overlapping matches
RECURSIVE RE_NUMBER_find_iter(_, _)
RE_NUMBER_find_iter(t, from) ==
  LET i == RE_NUMBER_find(t, from)
  IN IF i = -1 THEN <<>> ELSE <<i>> \o RE_NUMBER_find_iter(t, NumberEnd(t, i))

\* ------------------------------------------------------------------------
\* f64
\* ------------------------------------------------------------------------

\* An f64 parsed from a decimal literal is held by its sign, the
\* significant decimal digits d1 ... dn of the literal (d1 and dn other than
\* "0") and its decimal exponent: the record stands for the f64 nearest to
\* 0.d1...dn * 10^exp.  A literal too small for an f64 other than 0.0 is
\* 0.0 and one too large is infinity, as the parser rounds them.  Equal
\* records are equal f64 values, and records of up to 15 digits that differ
\* are different values.
Zero == [neg |-> FALSE, digits |-> <<>>, exp |-> 0]
Infinity == [neg |-> FALSE, digits |-> <<"inf">>, exp |-> 0]

\* the digits from the first that is not "0" on, up to the last that is not
StripLeadingZeros(ds) ==
  LET nz == {k \in 1..Len(ds) : ds[k] # "0"}
  IN IF nz = {} THEN <<>>
     ELSE SubSeq(ds, CHOOSE k \in nz : \A j \in nz : k <= j, Len(ds))

StripTrailingZeros(ds) ==
  LET nz == {k \in 1..Len(ds) : ds[k] # "0"}
  IN IF nz = {} THEN <<>>
     ELSE SubSeq(ds, 1, CHOOSE k \in nz : \A j \in nz : j <= k)

\* 0.a <= 0.b for two sequences of ASCII digits
FractionLeq(a, b) ==
  LET digit(x, i) == IF i <= Len(x) THEN DigitVal(x[i]) ELSE 0
      longest == IF Len(a) >= Len(b) THEN Len(a) ELSE Len(b)
      differ == {i \in 1..longest : digit(a, i) # digit(b, i)}
  IN IF differ = {} THEN TRUE
     ELSE LET k == CHOOSE i \in differ : \A j \in differ : i <= j
          IN digit(a, k) < digit(b, k)

\* the digits of 2^-1075 = 0.247... * 10^-323, half of the least positive
\* f64: a value up to it rounds to 0.0
HalfOfLeastDigits ==
  <<"2", "4", "7", "0", "3", "2", "8", "2", "2", "9", "2", "0", "6", "2", "3", "2",
     "7", "2", "0", "8", "8", "2", "8", "4", "3", "9", "6", "4", "3", "4", "1", "1",
     "0", "6", "8", "6", "1", "8", "2", "5", "2", "9", "9", "0", "1", "3", "0", "7",
     "1", "6", "2", "3", "8", "2", "2", "1", "2", "7", "9", "2", "8", "4", "1", "2",
     "5", "0", "3", "3", "7", "7", "5", "3", "6", "3", "5", "1", "0", "4", "3", "7",
     "5", "9", "3", "2", "6", "4", "9", "9", "1", "8", "1", "8", "0", "8", "1", "7",
     "9", "9", "6", "1", "8", "9", "8", "9", "8", "2", "8", "2", "3", "4", "7", "7",
     "2", "2", "8", "5", "8", "8", "6", "5", "4", "6", "3", "3", "2", "8", "3", "5",
     "5", "1", "7", "7", "9", "6", "9", "8", "9", "8", "1", "9", "9", "3", "8", "7",
     "3", "9", "8", "0", "0", "5", "3", "9", "0", "9", "3", "9", "0", "6", "3", "1",
     "5", "0", "3", "5", "6", "5", "9", "5", "1", "5", "5", "7", "0", "2", "2", "6",
     "3", "9", "2", "2", "9", "0", "8", "5", "8", "3", "9", "2", "4", "4", "9", "1",
     "0", "5", "1", "8", "4", "4", "3", "5", "9", "3", "1", "8", "0", "2", "8", "4",
     "9", "9", "3", "6", "5", "3", "6", "1", "5", "2", "5", "0", "0", "3", "1", "9",
     "3", "7", "0", "4", "5", "7", "6", "7", "8", "2", "4", "9", "2", "1", "9", "3",
     "6", "5", "6", "2", "3", "6", "6", "9", "8", "6", "3", "6", "5", "8", "4", "8",
     "0", "7", "5", "7", "0", "0", "1", "5", "8", "5", "7", "6", "9", "2", "6", "9",
     "9", "0", "3", "7", "0", "6", "3", "1", "1", "9", "2", "8", "2", "7", "9", "5",
     "5", "8", "5", "5", "1", "3", "3", "2", "9", "2", "7", "8", "3", "4", "3", "3",
     "8", "4", "0", "9", "3", "5", "1", "9", "7", "8", "0", "1", "5", "5", "3", "1",
     "2", "4", "6", "5", "9", "7", "2", "6", "3", "5", "7", "9", "5", "7", "4", "6",
     "2", "2", "7", "6", "6", "4", "6", "5", "2", "7", "2", "8", "2", "7", "2", "2",
     "0", "0", "5", "6", "3", "7", "4", "0", "0", "6", "4", "8", "5", "4", "9", "9",
     "9", "7", "7", "0", "9", "6", "5", "9", "9", "4", "7", "0", "4", "5", "4", "0",
     "2", "0", "8", "2", "8", "1", "6", "6", "2", "2", "6", "2", "3", "7", "8", "5",
     "7", "3", "9", "3", "4", "5", "0", "7", "3", "6", "3", "3", "9", "0", "0", "7",
     "9", "6", "7", "7", "6", "1", "9", "3", "0", "5", "7", "7", "5", "0", "6", "7",
     "4", "0", "1", "7", "6", "3", "2", "4", "6", "7", "3", "6", "0", "0", "9", "6",
     "8", "9", "5", "1", "3", "4", "0", "5", "3", "5", "5", "3", "7", "4", "5", "8",
     "5", "1", "6", "6", "6", "1", "1", "3", "4", "2", "2", "3", "7", "6", "6", "6",
     "7", "8", "6", "0", "4", "1", "6", "2", "1", "5", "9", "6", "8", "0", "4", "6",
     "1", "9", "1", "4", "4", "6", "7", "2", "9", "1", "8", "4", "0", "3", "0", "0",
     "5", "3", "0", "0", "5", "7", "5", "3", "0", "8", "4", "9", "0", "4", "8", "7",
     "6", "5", "3", "9", "1", "7", "1", "1", "3", "8", "6", "5", "9", "1", "6", "4",
     "6", "2", "3", "9", "5", "2", "4", "9", "1", "2", "6", "2", "3", "6", "5", "3",
     "8", "8", "1", "8", "7", "9", "6", "3", "6", "2", "3", "9", "3", "7", "3", "2",
     "8", "0", "4", "2", "3", "8", "9", "1", "0", "1", "8", "6", "7", "2", "3", "4",
     "8", "4", "9", "7", "6", "6", "8", "2", "3", "5", "0", "8", "9", "8", "6", "3",
     "3", "8", "8", "5", "8", "7", "9", "2", "5", "6", "2", "8", "3", "0", "2", "7",
     "5", "5", "9", "9", "5", "6", "5", "7", "5", "2", "4", "4", "5", "5", "5", "0",
     "7", "2", "5", "5", "1", "8", "9", "3", "1", "3", "6", "9", "0", "8", "3", "6",
     "2", "5", "4", "7", "7", "9", "1", "8", "6", "9", "4", "8", "6", "6", "7", "9",
     "9", "4", "9", "6", "8", "3", "2", "4", "0", "4", "9", "7", "0", "5", "8", "2",
     "1", "0", "2", "8", "5", "1", "3", "1", "8", "5", "4", "5", "1", "3", "9", "6",
     "2", "1", "3", "8", "3", "7", "7", "2", "2", "8", "2", "6", "1", "4", "5", "4",
     "3", "7", "6", "9", "3", "4", "1", "2", "5", "3", "2", "0", "9", "8", "5", "9",
     "1", "3", "2", "7", "6", "6", "7", "2", "3", "6", "3", "2", "8", "1", "2", "5">>

\* the digits of (2^54 - 1) * 2^970 = 0.179... * 10^309, half way from the
\* greatest finite f64 to 2^1024: a value from it on rounds to infinity
HalfPastGreatestDigits ==
  <<"1", "7", "9", "7", "6", "9", "3", "1", "3", "4", "8", "6", "2", "3", "1", "5",
     "8", "0", "7", "9", "3", "7", "2", "8", "9", "7", "1", "4", "0", "5", "3", "0",
     "3", "4", "1", "5", "0", "7", "9", "9", "3", "4", "1", "3", "2", "7", "1", "0",
     "0", "3", "7", "8", "2", "6", "9", "3", "6", "1", "7", "3", "7", "7", "8", "9",
     "8", "0", "4", "4", "4", "9", "6", "8", "2", "9", "2", "7", "6", "4", "7", "5",
     "0", "9", "4", "6", "6", "4", "9", "0", "1", "7", "9", "7", "7", "5", "8", "7",
     "2", "0", "7", "0", "9", "6", "3", "3", "0", "2", "8", "6", "4", "1", "6", "6",
     "9", "2", "8", "8", "7", "9", "1", "0", "9", "4", "6", "5", "5", "5", "5", "4",
     "7", "8", "5", "1", "9", "4", "0", "4", "0", "2", "6", "3", "0", "6", "5", "7",
     "4", "8", "8", "6", "7", "1", "5", "0", "5", "8", "2", "0", "6", "8", "1", "9",
     "0", "8", "9", "0", "2", "0", "0", "0", "7", "0", "8", "3", "8", "3", "6", "7",
     "6", "2", "7", "3", "8", "5", "4", "8", "4", "5", "8", "1", "7", "7", "1", "1",
     "5", "3", "1", "7", "6", "4", "4", "7", "5", "7", "3", "0", "2", "7", "0", "0",
     "6", "9", "8", "5", "5", "5", "7", "1", "3", "6", "6", "9", "5", "9", "6", "2",
     "2", "8", "4", "2", "9", "1", "4", "8", "1", "9", "8", "6", "0", "8", "3", "4",
     "9", "3", "6", "4", "7", "5", "2", "9", "2", "7", "1", "9", "0", "7", "4", "1",
     "6", "8", "4", "4", "4", "3", "6", "5", "5", "1", "0", "7", "0", "4", "3", "4",
     "2", "7", "1", "1", "5", "5", "9", "6", "9", "9", "5", "0", "8", "0", "9", "3",
     "0", "4", "2", "8", "8", "0", "1", "7", "7", "9", "0", "4", "1", "7", "4", "4",
     "9", "7", "7", "9", "2">>

RoundsToZero(digits, exp) ==
  IF exp # -323 THEN exp < -323 ELSE FractionLeq(digits, HalfOfLeastDigits)

RoundsToInfinity(digits, exp) ==
  IF exp # 309 THEN exp > 309 ELSE FractionLeq(HalfPastGreatestDigits, digits)

\* str::parse::<f64>() of a literal  digits "." digits ; Err is
\* unwrap_or_default'ed to 0.0.  Only ASCII digits are accepted.
ParseF64(t) ==
  LET dot == Find(t, <<".">>)
      int == Slice(t, 0, dot)
      frac == Slice(t, dot + 1, Len(t))
      tail == StripLeadingZeros(int \o frac)
      digits == StripTrailingZeros(tail)
      exp == Len(int) - (Len(int \o frac) - Len(tail))
  IN IF \/ dot = -1
        \/ int = <<>>
        \/ frac = <<>>
        \/ \E i \in 1..Len(int) : int[i] \notin AsciiDigits
        \/ \E i \in 1..Len(frac) : frac[i] \notin AsciiDigits
     THEN Zero
     ELSE IF digits = <<>> \/ RoundsToZero(digits, exp) THEN Zero
     ELSE IF RoundsToInfinity(digits, exp) THEN Infinity
     ELSE [neg |-> FALSE, digits |-> digits, exp |-> exp]

\* ------------------------------------------------------------------------
\* split_by_regex(text, &RE_DATE)
\* ------------------------------------------------------------------------

\* split_by_regex gone wrong: the next part starts at the end of the match
RECURSIVE SplitLoopFromMatchEnd(_, _, _)
SplitLoopFromMatchEnd(text, starts, last_end) ==
  IF starts = <<>>
  THEN IF last_end < Len(text) THEN <<Slice(text, last_end, Len(text))>> ELSE <<>>
  ELSE LET start == Head(starts)
           part == Slice(text, last_end, start)
       IN (IF start >= last_end /\ part # <<>> THEN <<part>> ELSE <<>>)
            \o SplitLoopFromMatchEnd(text, Tail(starts), start + DateLen)

\* the loop over the matches, then the tail after the last match start
RECURSIVE SplitLoop(_, _, _)
SplitLoop(text, starts, last_end) ==
  IF starts = <<>>
  THEN IF last_end < Len(text) THEN <<Slice(text, last_end, Len(text))>> ELSE <<>>
  ELSE LET start == Head(starts)
           part == Slice(text, last_end, start)
       IN (IF start >= last_end /\ part # <<>> THEN <<part>> ELSE <<>>)
            \o SplitLoop(text, Tail(starts), start)

split_by_regex(text) == SplitLoop(text, RE_DATE_find_iter(text, 0), 0)

\* ------------------------------------------------------------------------
\* get_transactions: the body of the loop over the parts
\* ------------------------------------------------------------------------

\* get_transactions gone wrong: the rest is split at the first money-number
SplitAtFirstNumber(rest) ==
  LET starts == RE_NUMBER_find_iter(rest, 0)
  IN IF starts = <<>> THEN <<<<>>, <<>>>>
     ELSE LET pos == starts[1]
          IN <<Trim(Slice(rest, 0, pos)), Trim(Slice(rest, pos, Len(rest)))>>

\* (description, amount): the rest of the part split at the start of the
\* last money-number, both sides trimmed; ("", "") without a money-number
SplitAtLastNumber(rest) ==
  LET starts == RE_NUMBER_find_iter(rest, 0)
  IN IF starts = <<>> THEN <<<<>>, <<>>>>
     ELSE LET pos == starts[Len(starts)]
          IN <<Trim(Slice(rest, 0, pos)), Trim(Slice(rest, pos, Len(rest)))>>

\* the first money-number of the amount text, comma turned into a point,
\* parsed as f64; 0.0 without one or when it does not parse
ParseAmount(amount) ==
  LET m == RE_NUMBER_find(amount, 0)
  IN IF m = -1 THEN Zero
     ELSE ParseF64(Replace(Slice(amount, m, NumberEnd(amount, m)), ",", <<".">>))

\* get_transactions gone wrong: a zero amount is not discarded
RejectedButForAmount(date, description, amount) ==
  date = <<>> \/ description = <<>>

\* the test that discards a partial parse
Rejected(date, description, amount) ==
  date = <<>> \/ description = <<>> \/ amount = Zero

\* get_transactions gone wrong: the line breaks of the description stay
MakeTransactionWithBreaks(date, description, amount) ==
  [date |-> Trim(date), description |-> Trim(description), amount |-> amount]

MakeTransaction(date, description, amount) ==
  [date |-> Trim(date),
   description |-> Trim(Replace(description, "\n", <<",", " ">>)),
   amount |-> amount]

\* one iteration: the transaction pushed for `part`, as a sequence of
\* length 0 (continue) or 1 (push)
ParsePart(raw) ==
  LET part == Trim(raw)
      date == split_once(part)[1]
      rest == split_once(part)[2]
      description == SplitAtLastNumber(rest)[1]
      amount == ParseAmount(SplitAtLastNumber(rest)[2])
  IN IF part = <<>> THEN <<>>
     ELSE IF RE_DATE_find(date, 0) = -1 THEN <<>>
     ELSE IF Rejected(date, description, amount) THEN <<>>
     ELSE <<MakeTransaction(date, description, amount)>>

\* ------------------------------------------------------------------------
\* get_transactions_from_pdf: the window of a page
\* ------------------------------------------------------------------------

STARTING_TEXT == <<"A", "L", "T", "E", "R", " ", "S", "A", "L", "D", "O">>
ENDING_TEXT == <<"N", "E", "U", "E", "R", " ", "S", "A", "L", "D", "O">>

WindowStart(text) ==
  IF Find(text, STARTING_TEXT) = -1 THEN 0 ELSE Find(text, STARTING_TEXT)

WindowEnd(text) ==
  IF Find(text, ENDING_TEXT) = -1 THEN Len(text) ELSE Find(text, ENDING_TEXT)

\* &text[start..end] panics when start > end
SlicePanics(text) == WindowStart(text) > WindowEnd(text)

\* ------------------------------------------------------------------------
\* Inputs: the files found under the input path and their page texts
\* ------------------------------------------------------------------------

\* bounds of the inputs
MaxDocs == 2
MaxPages == 2
MaxLines == 2
MaxFrags == 3

NL == <<"\n">>

RECURSIVE Concat(_)
Concat(ts) == IF ts = <<>> THEN <<>> ELSE Head(ts) \o Concat(Tail(ts))

\* all sequences of at most n elements of S
SeqsUpTo(S, n) == UNION {[1..k -> S] : k \in 0..n}

Date1 == <<"2", "6", ".", "0", "1", ".", "2", "0", "2", "1">>

\* one date-anchored fragment, piece by piece: what follows the date on its
\* line (nothing, a no-break space, a word), the line break, the description lines, the amount, the ending
DateTails == {<<>>, <<"U+00A0">>, <<" ", "x">>}
Breaks == {NL, <<>>}
DescLines == {<<"I", "K", "E", "A">>, <<"K", " ", "1", "1", ",", "1">>, <<" ">>}
Amounts == {<<"1", "8", ",", "3", "0">>, <<"0", ",", "0", "0">>, <<ArabicThree, ",", "5">>, <<"7">>, <<>>}
Endings == {<<>>, NL, <<" ", "e", "n", "d">>}
\* text in front of the first date; the second one holds a line break and
\* a money-number of its own
Prefixes == {<<>>, <<"x", "\n", "1", ",", "5", " ">>}

Bodies == {Concat([i \in 1..Len(ls) |-> ls[i] \o NL]) : ls \in SeqsUpTo(DescLines, MaxLines)}

FragmentTexts ==
  {pre \o Date1 \o tail \o brk \o body \o amount \o ending :
     pre \in Prefixes, tail \in DateTails, brk \in Breaks, body \in Bodies,
     amount \in Amounts, ending \in Endings}

\* whole fragments for windows of several: two that parse, one without a
\* line break, one with a zero amount, one without an amount, and one whose
\* last line runs into the date that follows it
Good1 == <<"2", "6", ".", "0", "1", ".", "2", "0", "2", "1", "\n", "I", "K", "E", "A", "\n", "1", "8", ",", "3", "0", "\n">>
Good2 == <<"2", "7", ".", "0", "2", ".", "2", "0", "2", "2", "\n", "K", " ", "1", "1", ",", "1", "\n", "B", "\n", "1", "9", ",", "2", "3", "\n">>
NoBreak == <<"2", "8", ".", "0", "3", ".", "2", "0", "2", "3", " ", "I", "K", "E", "A", " ", "1", ",", "5", " ">>
ZeroAmount == <<"2", "9", ".", "0", "4", ".", "2", "0", "2", "4", "\n", "A", "\n", "0", ",", "0", "0", "\n">>
NoAmount == <<"3", "0", ".", "0", "5", ".", "2", "0", "2", "5", "\n", "I", "K", "E", "A", "\n">>
RunsOn == <<"3", "1", ".", "1", "2", ".", "2", "0", "2", "0", "\n", "A", "\n", "1", ",", "5", "\n", "1", "1", ".", "1", "1", ".", "1", "1">>
Fragments == {Good1, Good2, NoBreak, ZeroAmount, NoAmount, RunsOn}

WindowTexts ==
  {pre \o Concat(fs) : pre \in {<<>>, <<"x", " ">>}, fs \in SeqsUpTo(Fragments, MaxFrags)}

\* page texts with the balance markers: both in order with transactions
\* outside them, none, inverted, only one of them, and repeated
Header == <<"0", "1", ".", "0", "1", ".", "2", "0", "2", "0", "\n", "H", "D", "R", "\n", "9", ",", "9", "9", "\n">>
Footer == <<" ", "5", ",", "0", "0", "\n", "0", "2", ".", "0", "2", ".", "2", "0", "2", "0", "\n", "F", "T", "R", "\n", "8", ",", "8", "8", "\n">>
MarkerTexts ==
  { Header \o STARTING_TEXT \o NL \o Good1 \o ENDING_TEXT \o Footer,
    Good1,
    ENDING_TEXT \o NL \o Good1 \o STARTING_TEXT \o NL \o Good2,
    Header \o STARTING_TEXT \o NL \o Good1,
    Good1 \o ENDING_TEXT \o Footer,
    STARTING_TEXT \o NL \o Good1 \o ENDING_TEXT \o NL \o STARTING_TEXT \o NL \o Good2 \o ENDING_TEXT }

DigitChar(n) == CHOOSE c \in AsciiDigits : DigitVal(c) = n

\* the text of page p of file d in a batch: one transaction, dated and
\* priced by d and p
BatchText(d, p) ==
  <<"0", DigitChar(d), ".", "0", DigitChar(p), ".", "2", "0", "2", "1">> \o NL
    \o <<"I", "K", "E", "A">> \o NL \o <<DigitChar(d), ",", DigitChar(p)>> \o NL

Page(extracts, text) == [extracts |-> extracts, text |-> text]
Doc(loads, pages) == [loads |-> loads, pages |-> pages]
OnePage(text) == <<Doc(TRUE, <<Page(TRUE, text)>>)>>

\* a file of a batch: it does not load, or it has one to MaxPages pages,
\* each of which extracts or not
BatchDocs(d) ==
  {Doc(FALSE, <<>>)} \cup
  {Doc(TRUE, [p \in 1..Len(oks) |-> Page(oks[p], IF oks[p] THEN BatchText(d, p) ELSE <<>>)]) :
     oks \in SeqsUpTo(BOOLEAN, MaxPages) \ {<<>>}}

BatchPaths ==
  UNION {{ds \in [1..n -> UNION {BatchDocs(d) : d \in 1..n}] :
            \A d \in 1..n : ds[d] \in BatchDocs(d)} : n \in 0..MaxDocs}

MarkerPaths ==
  {<<Doc(TRUE, [p \in 1..Len(ts) |-> Page(TRUE, ts[p])])>> :
     ts \in SeqsUpTo(MarkerTexts, MaxPages) \ {<<>>}}

\* amounts at the ends of the range of f64: 0,00...01 with 330 zeros after
\* the comma, and 1 followed by 309 zeros
TinyAmount == <<"0", ",">> \o [i \in 1..330 |-> "0"] \o <<"1">>
HugeAmount == <<"1">> \o [i \in 1..309 |-> "0"] \o <<",", "0">>
RangeTexts == {Date1 \o NL \o <<"A">> \o NL \o a : a \in {TinyAmount, HugeAmount}}

File == [name |-> "statement.pdf", is_dir |-> FALSE, pattern_ok |-> TRUE]
Folder == [name |-> "statements", is_dir |-> TRUE, pattern_ok |-> TRUE]
BadFolder == [name |-> "statements[", is_dir |-> TRUE, pattern_ok |-> FALSE]

Run(input, files, swap) == [pdf_or_folder |-> input, paths |-> files, swap_sign |-> swap]

\* the runs: one file of one page for every fragment, window and marker
\* text; folders of files that load or not with pages that extract or not,
\* with and without --swap-sign; a folder whose name is no glob pattern
Runs ==
  {Run(File, OnePage(t), FALSE) : t \in FragmentTexts \cup WindowTexts \cup RangeTexts}
  \cup {Run(File, ds, FALSE) : ds \in MarkerPaths}
  \cup {Run(Folder, ds, swap) : ds \in BatchPaths, swap \in BOOLEAN}
  \cup {Run(File, ds, swap) : ds \in {b \in BatchPaths : Len(b) = 1}, swap \in BOOLEAN}
  \cup {Run(BadFolder, <<>>, FALSE)}

\* ------------------------------------------------------------------------
\* State
\* ------------------------------------------------------------------------

VARIABLES
  pdf_or_folder,     \* Args.input: its name, whether it is a directory
  paths,             \* the files discovery yields, in discovery order
  swap_sign,         \* Args.swap_sign
  pc,                \* "main", "start", "load", "page", "parse", "write",
                     \* "done", "panic"
  doc_i,             \* advanzia2csv: index of the path being loaded
  page_num,          \* get_transactions_from_pdf: page_num
  window,            \* get_transactions: text, the window of the page
  parts,             \* get_transactions: the parts of the window
  part_i,            \* get_transactions: index of the part being parsed
  found,             \* get_transactions: transactions
  doc_transactions,  \* get_transactions_from_pdf: transactions
  transactions,      \* advanzia2csv: transactions
  result,            \* what main returns
  csv                \* csv_file: whether it was created, the records in
                     \* it, whether the beginning of one more follows them

vars == <<pdf_or_folder, paths, swap_sign, pc, doc_i, page_num, window, parts,
          part_i, found, doc_transactions, transactions, result, csv>>

input == <<pdf_or_folder, paths, swap_sign>>
page_vars == <<window, parts, part_i, found>>

Running == [kind |-> "Running"]
Ok == [kind |-> "Ok"]
SetLoggerError == [kind |-> "Err", error |-> "SetLoggerError"]
PatternError == [kind |-> "Err", error |-> "PatternError"]
IoError == [kind |-> "Err", error |-> "io::Error"]
NoTransactionsFound(path) ==
  [kind |-> "Err", error |-> "No transactions found in", path |-> path.name]
\* csv_file not created, and written with the records rs
NoFile == [created |-> FALSE, records |-> <<>>, torn |-> FALSE]
Written(rs) == [created |-> TRUE, records |-> rs, torn |-> FALSE]

Panic == [kind |-> "Panic"]

Init ==
  /\ \E r \in Runs :
       /\ pdf_or_folder = r.pdf_or_folder
       /\ paths = r.paths
       /\ swap_sign = r.swap_sign
  /\ pc = "main"
  /\ doc_i = 1
  /\ page_num = 1
  /\ window = <<>>
  /\ parts = <<>>
  /\ part_i = 1
  /\ found = <<>>
  /\ doc_transactions = <<>>
  /\ transactions = <<>>
  /\ result = Running
  /\ csv = NoFile

\* ------------------------------------------------------------------------
\* main
\* ------------------------------------------------------------------------

\* setup_logger(...)? fails: main returns the error
SetupLoggerFails ==
  /\ pc = "main"
  /\ pc' = "done"
  /\ result' = SetLoggerError
  /\ UNCHANGED <<input, doc_i, page_num, page_vars, doc_transactions, transactions, csv>>

\* setup_logger succeeds: advanzia2csv is called
SetupLogger ==
  /\ pc = "main"
  /\ pc' = "start"
  /\ UNCHANGED <<input, doc_i, page_num, page_vars, doc_transactions, transactions, result, csv>>

\* ------------------------------------------------------------------------
\* advanzia2csv
\* ------------------------------------------------------------------------

\* glob(...)? : the pattern built from the directory name is malformed
GlobFails ==
  /\ pc = "start"
  /\ pdf_or_folder.is_dir
  /\ ~pdf_or_folder.pattern_ok
  /\ pc' = "done"
  /\ result' = PatternError
  /\ UNCHANGED <<input, doc_i, page_num, page_vars, doc_transactions, transactions, csv>>

\* paths: the files under the directory, or the one file
Discover ==
  /\ pc = "start"
  /\ pdf_or_folder.is_dir => pdf_or_folder.pattern_ok
  /\ pc' = "load"
  /\ doc_i' = 1
  /\ UNCHANGED <<input, page_num, page_vars, doc_transactions, transactions, result, csv>>

\* Document::load fails: a warning, an empty Vec for this path
LoadFails ==
  /\ pc = "load"
  /\ doc_i <= Len(paths)
  /\ ~paths[doc_i].loads
  /\ doc_i' = doc_i + 1
  /\ UNCHANGED <<input, pc, page_num, page_vars, doc_transactions, transactions, result, csv>>

\* Document::load succeeds: get_transactions_from_pdf starts
LoadOk ==
  /\ pc = "load"
  /\ doc_i <= Len(paths)
  /\ paths[doc_i].loads
  /\ pc' = "page"
  /\ page_num' = 1
  /\ doc_transactions' = <<>>
  /\ UNCHANGED <<input, doc_i, page_vars, transactions, result, csv>>

\* get_transactions_from_pdf gone wrong: a page that does not extract ends
\* the file and drops what its pages gave
ExtractFailsAndReturns ==
  /\ pc = "page"
  /\ page_num <= Len(paths[doc_i].pages)
  /\ ~paths[doc_i].pages[page_num].extracts
  /\ doc_i' = doc_i + 1
  /\ pc' = "load"
  /\ UNCHANGED <<input, page_num, page_vars, doc_transactions, transactions, result, csv>>

\* extract_text fails: an error is logged, the next page follows
ExtractFails ==
  /\ pc = "page"
  /\ page_num <= Len(paths[doc_i].pages)
  /\ ~paths[doc_i].pages[page_num].extracts
  /\ page_num' = page_num + 1
  /\ UNCHANGED <<input, pc, doc_i, page_vars, doc_transactions, transactions, result, csv>>

\* extract_text succeeds and &text[start..end] panics
SliceFails ==
  /\ pc = "page"
  /\ page_num <= Len(paths[doc_i].pages)
  /\ paths[doc_i].pages[page_num].extracts
  /\ SlicePanics(paths[doc_i].pages[page_num].text)
  /\ pc' = "panic"
  /\ result' = Panic
  /\ UNCHANGED <<input, doc_i, page_num, page_vars, doc_transactions, transactions, csv>>

\* extract_text succeeds: get_transactions starts on the window and splits it
ExtractOk ==
  /\ pc = "page"
  /\ page_num <= Len(paths[doc_i].pages)
  /\ paths[doc_i].pages[page_num].extracts
  /\ LET text == paths[doc_i].pages[page_num].text
     IN /\ ~SlicePanics(text)
        /\ window' = Slice(text, WindowStart(text), WindowEnd(text))
        /\ parts' = split_by_regex(window')
  /\ part_i' = 1
  /\ found' = <<>>
  /\ pc' = "parse"
  /\ UNCHANGED <<input, doc_i, page_num, doc_transactions, transactions, result, csv>>

\* get_transactions gone wrong: a rejected part ends the loop
ParseStepBreaks ==
  /\ pc = "parse"
  /\ part_i <= Len(parts)
  /\ found' = found \o ParsePart(parts[part_i])
  /\ part_i' = IF ParsePart(parts[part_i]) = <<>> THEN Len(parts) + 1 ELSE part_i + 1
  /\ UNCHANGED <<input, pc, doc_i, page_num, window, parts, doc_transactions,
                 transactions, result, csv>>

\* get_transactions: one iteration of the loop over the parts
ParseStep ==
  /\ pc = "parse"
  /\ part_i <= Len(parts)
  /\ found' = found \o ParsePart(parts[part_i])
  /\ part_i' = part_i + 1
  /\ UNCHANGED <<input, pc, doc_i, page_num, window, parts, doc_transactions,
                 transactions, result, csv>>

\* get_transactions returns; its transactions are appended to the file's
ReturnTransactions ==
  /\ pc = "parse"
  /\ part_i > Len(parts)
  /\ doc_transactions' = doc_transactions \o found
  /\ page_num' = page_num + 1
  /\ pc' = "page"
  /\ UNCHANGED <<input, doc_i, page_vars, transactions, result, csv>>

\* advanzia2csv gone wrong: the transactions of a file replace those of
\* the files before it
ReturnFromPdfReplaces ==
  /\ pc = "page"
  /\ page_num > Len(paths[doc_i].pages)
  /\ transactions' = doc_transactions
  /\ doc_i' = doc_i + 1
  /\ pc' = "load"
  /\ UNCHANGED <<input, page_num, page_vars, doc_transactions, result, csv>>

\* get_transactions_from_pdf returns; flat_map chains the file's transactions
ReturnFromPdf ==
  /\ pc = "page"
  /\ page_num > Len(paths[doc_i].pages)
  /\ transactions' = transactions \o doc_transactions
  /\ doc_i' = doc_i + 1
  /\ pc' = "load"
  /\ UNCHANGED <<input, page_num, page_vars, doc_transactions, result, csv>>

\* every amount negated
NegateAmounts(ts) ==
  [i \in 1..Len(ts) |-> [ts[i] EXCEPT !.amount.neg = ~ts[i].amount.neg]]

\* every path is gone through: with swap_sign the amounts of the
\* transactions are negated in place, before the list is looked at
SwapSign ==
  /\ pc = "load"
  /\ doc_i > Len(paths)
  /\ transactions' = IF swap_sign THEN NegateAmounts(transactions) ELSE transactions
  /\ pc' = "write"
  /\ UNCHANGED <<input, doc_i, page_num, page_vars, doc_transactions, result, csv>>

\* advanzia2csv gone wrong: an empty list is written like any other
NoTransactionsWritten ==
  /\ pc = "write"
  /\ transactions = <<>>
  /\ csv' = Written(<<>>)
  /\ result' = Ok
  /\ pc' = "done"
  /\ UNCHANGED <<input, doc_i, page_num, page_vars, doc_transactions, transactions>>

\* transactions.is_empty(): the error names the input path
NoTransactions ==
  /\ pc = "write"
  /\ transactions = <<>>
  /\ result' = NoTransactionsFound(pdf_or_folder)
  /\ pc' = "done"
  /\ UNCHANGED <<input, doc_i, page_num, page_vars, doc_transactions, transactions, csv>>

\* File::create, serialize of every record, flush: all succeed
WriteCsv ==
  /\ pc = "write"
  /\ transactions # <<>>
  /\ csv' = Written(transactions)
  /\ result' = Ok
  /\ pc' = "done"
  /\ UNCHANGED <<input, doc_i, page_num, page_vars, doc_transactions, transactions>>

\* File::create(csv_file)? fails: the error is returned, there is no file
CreateFails ==
  /\ pc = "write"
  /\ transactions # <<>>
  /\ result' = IoError
  /\ pc' = "done"
  /\ UNCHANGED <<input, doc_i, page_num, page_vars, doc_transactions, transactions, csv>>

\* File::create succeeds and writer.serialize(record)? or writer.flush()?
\* fails: the error is returned; the file holds what the writer had
\* written out of its buffer by then and writes out as it is dropped,
\* none, some or all of the records, and after fewer than all of them
\* possibly the beginning of the next
WriteFails ==
  /\ pc = "write"
  /\ transactions # <<>>
  /\ \E n \in 0..Len(transactions), torn \in BOOLEAN :
       /\ torn => n < Len(transactions)
       /\ csv' = [created |-> TRUE, records |-> SubSeq(transactions, 1, n), torn |-> torn]
  /\ result' = IoError
  /\ pc' = "done"
  /\ UNCHANGED <<input, doc_i, page_num, page_vars, doc_transactions, transactions>>

Next ==
  \/ SetupLoggerFails
  \/ SetupLogger
  \/ GlobFails
  \/ Discover
  \/ LoadFails
  \/ LoadOk
  \/ ExtractFails
  \/ SliceFails
  \/ ExtractOk
  \/ ParseStep
  \/ ReturnTransactions
  \/ ReturnFromPdf
  \/ SwapSign
  \/ NoTransactions
  \/ WriteCsv
  \/ CreateFails
  \/ WriteFails

Spec == Init /\ [][Next]_vars

\* ------------------------------------------------------------------------
\* Terms of the properties
\* ------------------------------------------------------------------------

LastOf(s) == s[Len(s)]

\* two digits, dot, two digits, dot, four digits, and nothing else
IsDateShape(t) ==
  /\ Len(t) = 10
  /\ \A k \in 1..10 : IF k \in {3, 6} THEN t[k] = "." ELSE IsDigit(t[k])

\* digits, one comma, digits, and nothing else
IsMoneyNumber(t) ==
  \E c \in 2..(Len(t) - 1) :
    /\ t[c] = ","
    /\ \A k \in (1..Len(t)) \ {c} : IsDigit(t[k])

\* the value of a money-number read with a decimal point for its comma,
\* as the f64 nearest to it: its digits from the first to the last that is
\* not 0 and the power of ten of the place before the first, zero and
\* infinity past the ends of the range; a money-number with a digit
\* outside ASCII has no value and stands for itself
DecimalValue(t) ==
  LET c == CHOOSE k \in 1..Len(t) : t[k] = ","
      all == SubSeq(t, 1, c - 1) \o SubSeq(t, c + 1, Len(t))
      nz == {k \in 1..Len(all) : all[k] # "0"}
      first == CHOOSE k \in nz : \A j \in nz : k <= j
      last == CHOOSE k \in nz : \A j \in nz : j <= k
      digits == SubSeq(all, first, last)
      exp == c - first
  IN IF \E k \in 1..Len(all) : all[k] \notin AsciiDigits THEN [literal |-> t]
     ELSE IF nz = {} THEN Zero
     ELSE IF RoundsToZero(digits, exp) THEN Zero
     ELSE IF RoundsToInfinity(digits, exp) THEN Infinity
     ELSE [neg |-> FALSE, digits |-> digits, exp |-> exp]

\* the money-number is written in ASCII digits and its value is not zero
IsNonZeroMoney(t) ==
  /\ \A k \in 1..Len(t) : t[k] = "," \/ t[k] \in AsciiDigits
  /\ DecimalValue(t) # Zero

FirstNewline(t) == CHOOSE i \in 1..Len(t) : t[i] = "\n" /\ \A j \in 1..(i - 1) : t[j] # "\n"
LastNewline(t) == CHOOSE i \in 1..Len(t) : t[i] = "\n" /\ \A j \in (i + 1)..Len(t) : t[j] # "\n"
HasNewline(t) == \E i \in 1..Len(t) : t[i] = "\n"

\* the pieces of a fragment: its date, the text between the line break
\* after the date and the line break before the last line, its last line
FragmentDate(f) == SubSeq(f, 1, DateLen)
FragmentText(f) == SubSeq(f, DateLen + 2, LastNewline(f) - 1)
FragmentAmount(f) == SubSeq(f, LastNewline(f) + 1, Len(f))
AfterDateLine(f) == SubSeq(f, FirstNewline(f) + 1, Len(f))

\* a fragment that begins with a date followed by a line break, contains
\* description text and ends with a money-number on a line of its own
WellFormed(f) ==
  /\ Len(f) > DateLen + 1
  /\ IsDateShape(FragmentDate(f))
  /\ f[DateLen + 1] = "\n"
  /\ LastNewline(f) > DateLen + 1
  /\ IsMoneyNumber(FragmentAmount(f))
  /\ Trim(FragmentText(f)) # <<>>

Collapse(t) == Replace(t, "\n", <<",", " ">>)

\* the money-numbers after the date line of fragment f
NumbersAfterDate(f) == RE_NUMBER_find_iter(AfterDateLine(f), 0)
LastNumberStart(f) == LastOf(NumbersAfterDate(f))
LastNumber(f) ==
  Slice(AfterDateLine(f), LastNumberStart(f), NumberEnd(AfterDateLine(f), LastNumberStart(f)))
BeforeLastNumber(f) == Slice(AfterDateLine(f), 0, LastNumberStart(f))

\* no digit, comma, digit anywhere in the fragment
HasNoMoneyNumber(f) ==
  ~\E i \in 1..(Len(f) - 2) : IsDigit(f[i]) /\ f[i + 1] = "," /\ IsDigit(f[i + 2])

\* the amount, the last money-number after the date line, is all zeros,
\* too small for an f64 other than zero, or holds a digit that f64 does
\* not parse
HasNoAmount(f) ==
  /\ HasNewline(f)
  /\ NumbersAfterDate(f) # <<>>
  /\ ~IsNonZeroMoney(LastNumber(f))

\* a fragment without a line break, without a money-number, or without
\* an amount
Partial(f) == ~HasNewline(f) \/ HasNoMoneyNumber(f) \/ HasNoAmount(f)

\* the part the loop of get_transactions is about to parse
Parsing == pc = "parse" /\ part_i <= Len(parts)
Current == Trim(parts[part_i])
\* the part it parsed last
Parsed == pc = "parse" /\ part_i > 1
Previous == Trim(parts[part_i - 1])

\* the records of a sequence of parts, each parsed on its own
RECURSIVE RecordsOf(_)
RecordsOf(ps) == IF ps = <<>> THEN <<>> ELSE ParsePart(Head(ps)) \o RecordsOf(Tail(ps))

\* the records of a page, of a file, of the files
PageRecords(page) ==
  IF page.extracts
  THEN RecordsOf(split_by_regex(Slice(page.text, WindowStart(page.text), WindowEnd(page.text))))
  ELSE <<>>
DocRecords(doc) ==
  IF doc.loads THEN Concat([p \in 1..Len(doc.pages) |-> PageRecords(doc.pages[p])]) ELSE <<>>
AllRecords(docs) == Concat([d \in 1..Len(docs) |-> DocRecords(docs[d])])

\* advanzia2csv went through every path and decided what to return
Aggregated == pc = "done" /\ result \notin {SetLoggerError, PatternError}

\* ------------------------------------------------------------------------
\* C1
\* ------------------------------------------------------------------------

\* C1 as stated: a well-formed fragment is parsed into exactly one
\* transaction: its date, the value of its last line, and its text with
\* every line break replaced by ", " and then trimmed.
C1_AsStated ==
  [][(Parsing /\ WellFormed(Current)) =>
       found' = Append(found, [date |-> FragmentDate(Current),
                               description |-> Trim(Collapse(FragmentText(Current))),
                               amount |-> DecimalValue(FragmentAmount(Current))])]_vars

\* the transaction of a well-formed fragment: the text is trimmed before
\* its line breaks are replaced
Expected(f) ==
  [date |-> FragmentDate(f),
   description |-> Collapse(Trim(FragmentText(f))),
   amount |-> DecimalValue(FragmentAmount(f))]

\* C1, amended: a well-formed fragment whose money-number is written in
\* ASCII digits and has an f64 value other than zero is parsed into exactly
\* one transaction: its date, the f64 value of the money-number with a
\* decimal point for its comma, and its text trimmed with every line break
\* left replaced by ", ".
C1_WellFormedFragment ==
  [][(Parsing /\ WellFormed(Current) /\ IsNonZeroMoney(FragmentAmount(Current))) =>
       found' = Append(found, Expected(Current))]_vars

\* a well-formed fragment with a description of several lines was parsed
\* and its transaction is the last one found
C1_Witness ==
  /\ Parsed
  /\ WellFormed(Previous)
  /\ IsNonZeroMoney(FragmentAmount(Previous))
  /\ HasNewline(Trim(FragmentText(Previous)))
  /\ found # <<>>
  /\ LastOf(found) = Expected(Previous)

\* ------------------------------------------------------------------------
\* C2
\* ------------------------------------------------------------------------

SeveralNumbers(f) ==
  /\ DateAt(f, 0)
  /\ HasNewline(f)
  /\ Len(NumbersAfterDate(f)) >= 2

\* C2: when the text after the date line of a fragment holds several
\* money-numbers, the transaction pushed for it has the last of them as
\* its amount and everything before the start of that one, earlier
\* money-numbers included, as its description (trimmed, line breaks
\* replaced); it is pushed whenever that last money-number is written in
\* ASCII digits and has an f64 value other than zero.
C2_LastNumberIsAmount ==
  [][(Parsing /\ SeveralNumbers(Current)) =>
       IF IsNonZeroMoney(LastNumber(Current))
       THEN /\ Len(found') = Len(found) + 1
            /\ SubSeq(found', 1, Len(found)) = found
            /\ LastOf(found').amount = DecimalValue(LastNumber(Current))
            /\ LastOf(found').description = Collapse(Trim(BeforeLastNumber(Current)))
       ELSE found' = found]_vars

\* a fragment with an exchange rate in its description was parsed: the
\* amount is the last money-number and the description holds the earlier one
C2_Witness ==
  /\ Parsed
  /\ SeveralNumbers(Previous)
  /\ found # <<>>
  /\ LastOf(found).amount = DecimalValue(LastNumber(Previous))
  /\ LastOf(found).amount # DecimalValue(Slice(AfterDateLine(Previous), NumbersAfterDate(Previous)[1],
                                               NumberEnd(AfterDateLine(Previous), NumbersAfterDate(Previous)[1])))
  /\ RE_NUMBER_find(LastOf(found).description, 0) # -1

\* ------------------------------------------------------------------------
\* C3
\* ------------------------------------------------------------------------

\* the records of a part by the shape of its fragment: that of a
\* well-formed fragment with an amount, none of a fragment with something
\* missing, and for a fragment of another shape what parsing it alone gives
ByShape(part) ==
  LET f == Trim(part)
  IN IF WellFormed(f) /\ IsNonZeroMoney(FragmentAmount(f)) THEN <<Expected(f)>>
     ELSE IF Partial(f) THEN <<>>
     ELSE ParsePart(part)

\* C3: while get_transactions runs, the transactions found are the records
\* of the parts parsed so far, each parsed on its own, in source order;
\* when it has returned they are the records of all the parts of the
\* window, so a rejected part neither ends the loop nor touches the others:
\* every well-formed fragment with an amount has its record, in source
\* order, and a fragment with something missing has none, so k well-formed
\* fragments give their k records in source order.
C3_EveryFragmentOnItsOwn ==
  /\ [](pc = "parse" =>
         /\ part_i \in 1..(Len(parts) + 1)
         /\ found = RecordsOf(SubSeq(parts, 1, part_i - 1)))
  /\ [](pc = "page" => found = Concat([i \in 1..Len(parts) |-> ByShape(parts[i])]))

\* get_transactions returned from a window of three fragments whose second
\* was rejected: the records of the first and of the third were found
C3_Witness ==
  /\ pc = "page"
  /\ Len(parts) = 3
  /\ \A i \in {1, 3} :
       WellFormed(Trim(parts[i])) /\ IsNonZeroMoney(FragmentAmount(Trim(parts[i])))
  /\ Partial(Trim(parts[2]))
  /\ found = <<Expected(Trim(parts[1])), Expected(Trim(parts[3]))>>

\* ------------------------------------------------------------------------
\* C4
\* ------------------------------------------------------------------------

\* the same amount with the other sign
Opposite(a) == [neg |-> ~a.neg, digits |-> a.digits, exp |-> a.exp]

Negated(ts) ==
  [i \in 1..Len(ts) |->
     [date |-> ts[i].date, description |-> ts[i].description,
      amount |-> Opposite(ts[i].amount)]]

C5_AsStated ==
  Aggregated =>
    IF transactions = <<>>
    THEN result = [kind |-> "Err", error |-> "No transactions found in",
                   path |-> pdf_or_folder.name]
    ELSE result = Ok /\ csv = Written(transactions)

IsPrefix(s, t) == Len(s) <= Len(t) /\ s = SubSeq(t, 1, Len(s))

\* C5, amended: with no transaction aggregated advanzia2csv fails with the
\* error that names the input path and does not create the destination;
\* otherwise it writes the records and returns success, or returns the
\* I/O error of a destination that could not be created, or of one that
\* was created and could not be written, which then holds none, some or
\* all of the records, in order, and after fewer than all of them
\* possibly the beginning of the next.
C5_EmptyIsAnError ==
  Aggregated =>
    IF transactions = <<>>
    THEN /\ result = [kind |-> "Err", error |-> "No transactions found in",
                      path |-> pdf_or_folder.name]
         /\ csv = NoFile
    ELSE \/ result = Ok /\ csv = Written(transactions)
         \/ result = IoError /\ csv = NoFile
         \/ /\ result = IoError
            /\ csv.created
            /\ IsPrefix(csv.records, transactions)
            /\ csv.torn => csv.records # transactions

\* a folder whose files load and give no transaction ended in the error
C5_Witness ==
  /\ Aggregated
  /\ pdf_or_folder.is_dir
  /\ \E d \in 1..Len(paths) : paths[d].loads
  /\ transactions = <<>>
  /\ result.kind = "Err"
  /\ result.path = pdf_or_folder.name
  /\ ~csv.created

\* ------------------------------------------------------------------------
\* C6
\* ------------------------------------------------------------------------

\* C6: files that do not load and pages that do not extract never end the
\* batch: between two files the aggregate is the concatenation, in
\* discovery order then page order then fragment order, of the records of
\* the extracted pages of the loaded files gone through, and advanzia2csv
\* decides what to return only with every file gone through, on that
\* aggregate (with swap_sign, on that aggregate with its amounts negated).
C6_FailuresAreSkipped ==
  /\ pc = "load" => transactions = AllRecords(SubSeq(paths, 1, doc_i - 1))
  /\ pc = "page" =>
       doc_transactions =
         DocRecords(Doc(TRUE, SubSeq(paths[doc_i].pages, 1, page_num - 1)))
  /\ pc = "write" =>
       transactions = IF swap_sign THEN Negated(AllRecords(paths)) ELSE AllRecords(paths)
  /\ (pc = "write" \/ Aggregated) => doc_i = Len(paths) + 1

\* a batch with a file that does not load and a page that does not extract
\* was converted: the records of the other pages were written
C6_Witness ==
  /\ Aggregated
  /\ result = Ok
  /\ \E d \in 1..Len(paths) : ~paths[d].loads
  /\ \E d \in 1..Len(paths) :
       \E p \in 1..Len(paths[d].pages) :
         /\ ~paths[d].pages[p].extracts
         /\ \E q \in (p + 1)..Len(paths[d].pages) : paths[d].pages[q].extracts
  /\ ~swap_sign
  /\ csv.records = AllRecords(paths)
  /\ csv.records # <<>>

\* ------------------------------------------------------------------------
\* C7
\* ------------------------------------------------------------------------

Complete(t) == t.date # <<>> /\ t.description # <<>> /\ t.amount # Zero

\* C7: every transaction get_transactions holds, and every one handed on
\* from it, has a date, a description and an amount other than zero; and
\* parsing a fragment without a line break, without a money-number, or
\* with an all-zero or unparsable amount pushes no transaction.
C7_NoPartialTransaction ==
  /\ [](\A i \in 1..Len(found) : Complete(found[i]))
  /\ [](\A i \in 1..Len(transactions) : Complete(transactions[i]))
  /\ [](\A i \in 1..Len(csv.records) : Complete(csv.records[i]))
  /\ [][(Parsing /\ Partial(Current)) => found' = found]_vars

\* after a transaction was found, a fragment with an all-zero amount was
\* parsed and nothing was pushed for it
C7_Witness ==
  /\ Parsed
  /\ part_i = 3
  /\ HasNoAmount(Previous)
  /\ ~Partial(Trim(parts[1]))
  /\ Len(found) = 1
  /\ Complete(found[1])

\* ------------------------------------------------------------------------
\* C8
\* ------------------------------------------------------------------------

\* C8: the date of every transaction found has exactly the shape
\* DD.MM.YYYY, with nothing else of the first line of its fragment.
C8_DateIsTheMarker ==
  \A i \in 1..Len(found) : IsDateShape(found[i].date)

\* ------------------------------------------------------------------------
\* C9
\* ------------------------------------------------------------------------

\* C9: windowing a page never fails, also when the first "NEUER SALDO"
\* comes before the first "ALTER SALDO": get_transactions is given the
\* text from the first "ALTER SALDO" (or the beginning) to the first
\* "NEUER SALDO" (or the end), and the pages that follow are gone through.
C9_WindowingNeverFails ==
  /\ pc # "panic"
  /\ pc = "parse" =>
       LET text == paths[doc_i].pages[page_num].text
       IN window = Slice(text, WindowStart(text), WindowEnd(text))

\* ------------------------------------------------------------------------
\* C10
\* ------------------------------------------------------------------------

\* the fragment starts at a date marker and runs up to the next one
RunsToNextDate(part) ==
  /\ DateAt(part, 0)
  /\ \A j \in DateLen..Len(part) : ~DateAt(part, j)

HasNoDate(part) == \A j \in 0..Len(part) : ~DateAt(part, j)

FirstDate(text) ==
  IF HasNoDate(text) THEN Len(text)
  ELSE CHOOSE i \in 0..Len(text) : DateAt(text, i) /\ \A j \in 0..(i - 1) : ~DateAt(text, j)

\* C10 as stated: the parts of the window are not empty, each starts at a
\* date marker and runs up to the next, and the text before the first date
\* marker is in none of them.
C10_AsStated ==
  /\ \A i \in 1..Len(parts) : parts[i] # <<>> /\ RunsToNextDate(parts[i])
  /\ Concat(parts) = Slice(window, FirstDate(window), Len(window))

\* C10, amended: the parts of the window are not empty and make up the
\* whole window in source order; every part after the first starts at a
\* date marker and runs up to the next; the first does so too, or it is
\* the text before the first date marker (all of a window without one),
\* which split_by_regex returns and does not discard.
C10_PartsCoverTheWindow ==
  /\ \A i \in 1..Len(parts) : parts[i] # <<>>
  /\ Concat(parts) = window
  /\ \A i \in 2..Len(parts) : RunsToNextDate(parts[i])
  /\ parts # <<>> => RunsToNextDate(parts[1]) \/ HasNoDate(parts[1])

\* a window with text before its first date was split: the first part is
\* that text and the others start at their dates
C10_Witness ==
  /\ pc = "parse"
  /\ Len(parts) >= 3
  /\ HasNoDate(parts[1])
  /\ parts[1] = Slice(window, 0, FirstDate(window))
  /\ RunsToNextDate(parts[2])

=============================================================================
